---- MODULE Spec2Model ----
(***************************************************************************)
(* Model of the reinforcement-learning agents of quad_controller_rl:       *)
(*   agents/ddpg_agent.py  ReplayBuffer, OUNoise, DDPGAgent                *)
(*   agents/dqn_agent.py   DQNAgent                                        *)
(*                                                                         *)
(* Floating-point numbers are fixed-point integers, Unit to 1.0, and a     *)
(* literal factor such as 0.996 is the ratio <<996, 1000>>; a product is   *)
(* rounded down to the fixed-point grid (Scale), as a float product is     *)
(* rounded to the float grid.  An optional field (None in the source) is a *)
(* sequence of length 0 or 1.  The Keras networks are outside the          *)
(* repository: a network is its weights, a prediction is read off the      *)
(* weights, and one optimizer step moves a weight by the learning rate     *)
(* against the sign of its error (Adam's normalised step).                 *)
(***************************************************************************)
EXTENDS Integers, Sequences, FiniteSets, TLC

\* ------------------------------------------------------------ bounds
\* Calls explored from construction.
MaxSteps == 4
\* ReplayBuffer capacity of the DDPG agent (100000 in the source), scaled.
buffer_size == 2
\* Mini-batch size of the DDPG agent (64 in the source), scaled.
batch_size == 1
\* deque capacity of the DQN agent (10000 in the source), scaled.
MEMORY_SIZE == 2
\* Mini-batch size of the DQN agent (64 in the source), scaled.
BATCH_SIZE == 1
\* The modulus of the weight-saving test (250 in the source), scaled.
SAVE_PERIOD == 3
\* replay() calls explored by SpecReplay.
MaxReplays == 1500

\* ------------------------------------------------------------ numbers
Unit == 10^6

\* floor(x * q[1] / q[2]) without leaving 32 bits.
Scale(x, q) == (x \div q[2]) * q[1] + ((x % q[2]) * q[1]) \div q[2]

Sign(x) == IF x > 0 THEN 1 ELSE IF x < 0 THEN -1 ELSE 0

RECURSIVE SumSeq(_)
SumSeq(s) == IF s = <<>> THEN 0 ELSE s[1] + SumSeq(Tail(s))

Last(s) == s[Len(s)]

None == <<>>
Some(x) == <<x>>

\* ------------------------------------------------------------ inputs
\* What the task hands to step() in one tick: the raw observation (position
\* x, y, z and one further component) and the reward.
Ticks == {[state |-> <<0, 1, 2, 7>>, reward |-> 0 - Unit],
          [state |-> <<1, 0, 3, 7>>, reward |-> 2 * Unit]}
Observations == {t.state : t \in Ticks}
\* Outcomes of np.random.randn(3).
RandnSamples == {<<Unit, 0, 0 - Unit>>, <<0 - (Unit \div 2), Unit, Unit \div 4>>}

\* ------------------------------------------------------------ ReplayBuffer
Experience(state, action, reward, next_state, done) ==
    [state |-> state, action |-> action, reward |-> reward,
     next_state |-> next_state, done |-> done]

\* Mutant of DequeAppend: a list that grows without bound.
DequeAppend_unbounded(memory, size, e) == Append(memory, e)

\* deque(maxlen=size).append: the oldest element leaves a full deque.
DequeAppend(memory, size, e) ==
    IF Len(memory) >= size
    THEN IF size = 0 THEN <<>> ELSE Append(Tail(memory), e)
    ELSE Append(memory, e)

\* random.sample(memory, k): k elements at distinct positions, in any order.
RandomSample(memory, k) ==
    {[i \in 1..k |-> memory[p[i]]] :
        p \in {f \in [1..k -> 1..Len(memory)] :
                  \A i, j \in 1..k : i # j => f[i] # f[j]}}

\* ------------------------------------------------------------ OUNoise
Zeros3 == [i \in 1..3 |-> 0]
mu == Zeros3
theta == <<15, 100>>
sigma == <<3, 10>>

\* OUNoise.sample: the new state, which is also the value returned.
OUNoise_sample(x, randn) ==
    [i \in 1..3 |-> x[i] + Scale(mu[i] - x[i], theta) + Scale(randn[i], sigma)]

\* ------------------------------------------------------------ networks
\* Adam's default step, and LEARNING_RATE of the DQN agent: 0.001.
LEARNING_RATE == <<1, 1000>>
LR == Scale(Unit, LEARNING_RATE)

\* Weights after random initialisation, <<bias, gain>> for each network.
InitialNetworks ==
    {[actor |-> <<Unit \div 10, Unit \div 20>>, critic |-> <<0 - (Unit \div 5), Unit \div 4>>]}

\* Actor.model.predict: one action per state, three components.
ActorPredict(w, s) == [i \in 1..3 |-> w[1] + w[2] * s[i]]

\* Critic.model.predict: the Q-value of (state, action).
CriticPredict(w, s, a) == w[1] + w[2] * s[3] + a[3]

\* Critic.get_action_gradients: dQ/da of each (state, action) of the batch.
get_action_gradients(w, states, actions) ==
    [k \in 1..Len(states) |-> <<0, 0, Unit>>]

\* critic_local.model.train_on_batch(x=[states, actions], y=q_targets).
CriticTrain(w, states, actions, q_targets) ==
    LET err == [k \in 1..Len(states) |->
                   q_targets[k] - CriticPredict(w, states[k], actions[k])]
    IN  <<w[1] + LR * Sign(SumSeq(err)),
          w[2] + LR * Sign(SumSeq([k \in 1..Len(states) |-> err[k] * states[k][3]]))>>

\* actor_local.train_fn([states, action_gradients, 1]): loss = mean(-grad * out).
ActorTrain(w, states, grads) ==
    <<w[1] + LR * Sign(SumSeq([k \in 1..Len(states) |->
                                  grads[k][1] + grads[k][2] + grads[k][3]])),
      w[2] + LR * Sign(SumSeq([k \in 1..Len(states) |->
                                  grads[k][1] * states[k][1] + grads[k][2] * states[k][2]
                                  + grads[k][3] * states[k][3]]))>>

\* ------------------------------------------------------------ state
VARIABLES
    agent,          \* the class constructed: "DDPG" or "DQN"
    memory,         \* the replay memory, oldest first
    last_state, last_action, total_reward, count, episode_num,
    stats,          \* the rows of the stats file
    noise_state,    \* DDPG: OUNoise.state
    actor_local, actor_target, critic_local, critic_target,
    tau,            \* DDPG: the soft-update rate, a ratio
    epsilon,        \* DQN: the exploration rate
    model,          \* DQN: the Q-network, state -> action values
    weights_file,   \* DQN: the weights last saved
    added,          \* every experience ever appended to the memory, in order
    calls           \* one record per call made on the agent, in order

vars == <<agent, memory, last_state, last_action, total_reward, count, episode_num,
          stats, noise_state, actor_local, actor_target, critic_local, critic_target,
          tau, epsilon, model, weights_file, added, calls>>

ddpg_vars == <<noise_state, actor_local, actor_target, critic_local, critic_target, tau>>
dqn_vars == <<epsilon, model, weights_file>>

\* task.action_space.shape is (6,): force and torque.
ActionSpaceZeros == <<0, 0, 0, 0, 0, 0>>

CallRecord(op, state, reward, done, action, stored, learned, batch, fits, ret, saved, wrote) ==
    [op |-> op, state |-> state, reward |-> reward, done |-> done, action |-> action,
     stored |-> stored, learned |-> learned, batch |-> batch, fits |-> fits,
     ret |-> ret, saved |-> saved, wrote |-> wrote]

\* ------------------------------------------------------------ DDPGAgent
gamma == <<0, 1>>
DDPG_tau == <<1, 1000>>

DDPG_preprocess_state(state) == SubSeq(state, 1, 3)

DDPG_postprocess_action(action) ==
    [i \in 1..Len(ActionSpaceZeros) |-> IF i <= 3 THEN action[i] ELSE ActionSpaceZeros[i]]

DDPG_reset_episode_vars ==
    [last_state |-> None, last_action |-> None, total_reward |-> 0, count |-> 0]

\* act: the policy's action plus a noise sample; the noise state moves.
DDPG_act(w, noise, randn, state) ==
    LET n == OUNoise_sample(noise, randn)
        a == ActorPredict(w, state)
    IN  [action |-> [i \in 1..3 |-> a[i] + n[i]], noise |-> n]

\* ReplayBuffer.add
ReplayBuffer_add(mem, state, action, reward, next_state, done) ==
    DequeAppend(mem, buffer_size, Experience(state, action, reward, next_state, done))

\* step, "Save experience / reward": whether a transition is stored.
DDPG_has_previous(ls, la) == ls # None /\ la # None

\* step, "Learn if enough sample are available in the memory".
DDPG_should_learn(mem) == Len(mem) > batch_size

\* Mutant of soft_update: local and target weights exchanged.
soft_update_swapped(t, local_weights, target_weights) ==
    [i \in 1..Len(target_weights) |->
        Scale(target_weights[i], t) + Scale(local_weights[i], <<t[2] - t[1], t[2]>>)]

\* soft_update: the target's new weights.
soft_update(t, local_weights, target_weights) ==
    [i \in 1..Len(target_weights) |->
        Scale(local_weights[i], t) + Scale(target_weights[i], <<t[2] - t[1], t[2]>>)]

\* learn: the four networks' weights after one update on the batch.
learn(al, at, cl, ct, t, experiences) ==
    LET n == Len(experiences)
        states == [k \in 1..n |-> experiences[k].state]
        actions == [k \in 1..n |-> experiences[k].action]
        rewards == [k \in 1..n |-> experiences[k].reward]
        dones == [k \in 1..n |-> IF experiences[k].done THEN 1 ELSE 0]
        next_states == [k \in 1..n |-> experiences[k].next_state]
        action_nexts == [k \in 1..n |-> ActorPredict(at, next_states[k])]
        q_target_nexts == [k \in 1..n |-> CriticPredict(ct, next_states[k], action_nexts[k])]
        q_targets == [k \in 1..n |->
                         rewards[k] + Scale(q_target_nexts[k], gamma) * (1 - dones[k])]
        cl1 == CriticTrain(cl, states, actions, q_targets)
        action_gradients == get_action_gradients(cl1, states, actions)
        al1 == ActorTrain(al, states, action_gradients)
    IN  [actor_local |-> al1, critic_local |-> cl1,
         critic_target |-> soft_update(t, cl1, ct),
         actor_target |-> soft_update(t, al1, at)]

\* Mutant of DDPG_episode_vars: the reset forgets total_reward.
DDPG_episode_vars_keep_total(state, action, total, done) ==
    IF done
    THEN [last_state |-> None, last_action |-> None, total_reward |-> total, count |-> 0]
    ELSE [last_state |-> Some(state), last_action |-> Some(action),
          total_reward |-> total, count |-> count]

\* step, from "self.last_state = np.copy(state)" to the reset: the episode
\* variables on return.
DDPG_episode_vars(state, action, total, done) ==
    IF done THEN DDPG_reset_episode_vars
    ELSE [last_state |-> Some(state), last_action |-> Some(action),
          total_reward |-> total, count |-> count]

\* Mutant of DDPG_stats_row: the row is written after the reset.
DDPG_stats_row_after_reset(num, total) == <<num, 0>>

\* write_stats([self.episode_num, self.total_reward])
DDPG_stats_row(num, total) == <<num, total>>

DDPGStep ==
    /\ agent = "DDPG"
    /\ Len(calls) < MaxSteps
    /\ \E tick \in Ticks, done \in BOOLEAN, randn \in RandnSamples :
        LET state == DDPG_preprocess_state(tick.state)
            reward == tick.reward
            a == DDPG_act(actor_local, noise_state, randn, state)
            stored == DDPG_has_previous(last_state, last_action)
            mem1 == IF stored
                    THEN ReplayBuffer_add(memory, last_state[1], last_action[1],
                                          reward, state, done)
                    ELSE memory
            learns == DDPG_should_learn(mem1)
        IN  \E experiences \in (IF learns THEN RandomSample(mem1, batch_size) ELSE {<<>>}) :
            LET nets == IF learns
                        THEN learn(actor_local, actor_target, critic_local,
                                   critic_target, tau, experiences)
                        ELSE [actor_local |-> actor_local, critic_local |-> critic_local,
                              critic_target |-> critic_target, actor_target |-> actor_target]
                total1 == total_reward + reward
                ev == DDPG_episode_vars(state, a.action, total1, done)
                row == DDPG_stats_row(episode_num, total1)
            IN  /\ noise_state' = a.noise
                /\ memory' = mem1
                /\ added' = IF stored
                            THEN Append(added, Experience(last_state[1], last_action[1],
                                                          reward, state, done))
                            ELSE added
                /\ actor_local' = nets.actor_local
                /\ actor_target' = nets.actor_target
                /\ critic_local' = nets.critic_local
                /\ critic_target' = nets.critic_target
                /\ last_state' = ev.last_state
                /\ last_action' = ev.last_action
                /\ total_reward' = ev.total_reward
                /\ count' = ev.count
                /\ stats' = IF done THEN Append(stats, row) ELSE stats
                /\ episode_num' = IF done THEN episode_num + 1 ELSE episode_num
                /\ calls' = Append(calls,
                       CallRecord("step", state, reward, done, a.action, stored,
                                  IF learns THEN 1 ELSE 0, experiences, <<>>,
                                  DDPG_postprocess_action(a.action), FALSE,
                                  IF done THEN Some(row) ELSE None))
                /\ UNCHANGED <<agent, tau>>
                /\ UNCHANGED dqn_vars

\* ------------------------------------------------------------ DQNAgent
FORCE_Z == 2
GAMMA == <<9, 10>>
EPSILON_MIN == Scale(Unit, <<1, 100>>)
EPSILON_DECAY == <<996, 1000>>
EPSILON_START == 3 * Unit

\* np.arange(action_high, 15.0, -4.0)[::-1] for action_high = 23.
action_map == <<19, 23>>
action_size == Len(action_map)
Actions == 0..(action_size - 1)

DQN_preprocess_state(state) == SubSeq(state, 1, 3)

ReducedStates == {DQN_preprocess_state(o) : o \in Observations}

\* The Q-network after random initialisation, one table per outcome.
InitialModels ==
    {[s \in ReducedStates |-> [a \in Actions |-> k * (s[3] - 2 * a) * (Unit \div 8)]] :
        k \in {1, -1}}

\* complete_action[FORCE_Z] = self.action_map[action], indices from 0.
DQN_postprocess_action(action) ==
    [i \in 1..Len(ActionSpaceZeros) |->
        IF i = FORCE_Z + 1 THEN action_map[action + 1] ELSE ActionSpaceZeros[i]]

DQN_reset_episode_vars ==
    [last_state |-> None, last_action |-> None, total_reward |-> 0, count |-> 0]

\* np.amax
AMax(v) == CHOOSE x \in {v[a] : a \in DOMAIN v} : \A a \in DOMAIN v : v[a] <= x

\* np.argmax: the first index of the maximum.
ArgMax(v) == CHOOSE a \in DOMAIN v :
                 /\ v[a] = AMax(v)
                 /\ \A b \in DOMAIN v : v[b] = AMax(v) => a <= b

\* act: np.random.rand() is one of 0 .. Unit - 1; a random action when rand <= epsilon,
\* the greedy one otherwise.
DQN_act(q, eps, state) ==
    (IF eps >= 0 THEN Actions ELSE {})
        \cup (IF eps < Unit - 1 THEN {ArgMax(q[state])} ELSE {})

\* Mutant of add_memory: the previous and the current state exchanged.
add_memory_swapped(mem, state, action, reward, next_state, done) ==
    DequeAppend(mem, MEMORY_SIZE, Experience(next_state, action, reward, state, done))

\* add_memory: deque(maxlen=MEMORY_SIZE).append of the transition.
add_memory(mem, state, action, reward, next_state, done) ==
    DequeAppend(mem, MEMORY_SIZE, Experience(state, action, reward, next_state, done))

DQN_has_previous(ls, la) == ls # None /\ la # None

\* Mutant of DQN_should_learn: learns as soon as one batch fits.
DQN_should_learn_ge(mem) == Len(mem) >= BATCH_SIZE

DQN_should_learn(mem) == Len(mem) > BATCH_SIZE

\* Mutant of replay_target: the bootstrap term is added to terminal transitions too.
replay_target_ignores_done(q, e) == e.reward + Scale(AMax(q[e.next_state]), GAMMA)

\* replay: the scalar target of one transition.
replay_target(q, e) ==
    IF ~e.done THEN e.reward + Scale(AMax(q[e.next_state]), GAMMA) ELSE e.reward

\* replay: target_f = predict(state); target_f[0][action] = target.
replay_target_f(q, e) == [q[e.state] EXCEPT ![e.action] = replay_target(q, e)]

\* model.fit(state, target_f, epochs=1): one optimizer step on the mse loss.
Fit(q, state, target_f) ==
    [q EXCEPT ![state] =
        [a \in Actions |-> q[state][a] + LR * Sign(target_f[a] - q[state][a])]]

\* replay: the loop over the mini-batch, each fit seen by the next prediction.
RECURSIVE ReplayLoop(_, _, _)
ReplayLoop(q, mini_batch, fits) ==
    IF mini_batch = <<>> THEN [model |-> q, fits |-> fits]
    ELSE LET e == Head(mini_batch)
             target_f == replay_target_f(q, e)
         IN  ReplayLoop(Fit(q, e.state, target_f), Tail(mini_batch),
                        Append(fits, [e |-> e, predicted |-> q[e.state],
                                      next_q |-> q[e.next_state],
                                      target_f |-> target_f]))

\* replay: "Experience increased, then decrease the exploration rate".
decay_epsilon(eps) == IF eps > EPSILON_MIN THEN Scale(eps, EPSILON_DECAY) ELSE eps

\* replay(batch_size) on the sampled mini-batch.
replay(q, eps, mini_batch) ==
    LET r == ReplayLoop(q, mini_batch, <<>>)
    IN  [model |-> r.model, fits |-> r.fits, epsilon |-> decay_epsilon(eps)]

DQN_episode_vars(state, action, total, done) ==
    IF done THEN DQN_reset_episode_vars
    ELSE [last_state |-> Some(state), last_action |-> Some(action),
          total_reward |-> total, count |-> count]

\* write_stats([self.episode_num, self.total_reward, self.epsilon])
DQN_stats_row(num, total, eps) == <<num, total, eps>>

\* step, "Save model weights after each 250 episodes": tested after the increment.
should_save(num) == num % SAVE_PERIOD = 0

DQNStep ==
    /\ agent = "DQN"
    /\ Len(calls) < MaxSteps
    /\ \E tick \in Ticks, done \in BOOLEAN :
        LET state == DQN_preprocess_state(tick.state)
            reward == tick.reward
        IN
        \E action \in DQN_act(model, epsilon, state) :
        LET stored == DQN_has_previous(last_state, last_action)
            mem1 == IF stored
                    THEN add_memory(memory, last_state[1], last_action[1],
                                    reward, state, done)
                    ELSE memory
            learns == DQN_should_learn(mem1)
        IN  \E mini_batch \in (IF learns THEN RandomSample(mem1, BATCH_SIZE) ELSE {<<>>}) :
            LET r == IF learns THEN replay(model, epsilon, mini_batch)
                     ELSE [model |-> model, fits |-> <<>>, epsilon |-> epsilon]
                total1 == total_reward + reward
                ev == DQN_episode_vars(state, action, total1, done)
                row == DQN_stats_row(episode_num, total1, r.epsilon)
                num1 == IF done THEN episode_num + 1 ELSE episode_num
                saves == done /\ should_save(num1)
            IN  /\ memory' = mem1
                /\ added' = IF stored
                            THEN Append(added, Experience(last_state[1], last_action[1],
                                                          reward, state, done))
                            ELSE added
                /\ model' = r.model
                /\ epsilon' = r.epsilon
                /\ last_state' = ev.last_state
                /\ last_action' = ev.last_action
                /\ total_reward' = ev.total_reward
                /\ count' = ev.count
                /\ stats' = IF done THEN Append(stats, row) ELSE stats
                /\ episode_num' = num1
                /\ weights_file' = IF saves THEN Some(r.model) ELSE weights_file
                /\ calls' = Append(calls,
                       CallRecord("step", state, reward, done, action, stored,
                                  IF learns THEN 1 ELSE 0, mini_batch, r.fits,
                                  DQN_postprocess_action(action), saves,
                                  IF done THEN Some(row) ELSE None))
                /\ UNCHANGED agent
                /\ UNCHANGED ddpg_vars

\* ------------------------------------------------------------ construction
DDPGConstructed(t) ==
    /\ agent = "DDPG"
    /\ \E w \in InitialNetworks : actor_local = w.actor /\ critic_local = w.critic
    /\ actor_target = actor_local
    /\ critic_target = critic_local
    /\ noise_state = [i \in 1..3 |-> 1 * mu[i]]
    /\ memory = <<>>
    /\ tau = t
    /\ last_state = DDPG_reset_episode_vars.last_state
    /\ last_action = DDPG_reset_episode_vars.last_action
    /\ total_reward = DDPG_reset_episode_vars.total_reward
    /\ count = DDPG_reset_episode_vars.count
    /\ episode_num = 1
    /\ stats = <<>>
    /\ epsilon = 0 /\ model = <<>> /\ weights_file = None
    /\ added = <<>> /\ calls = <<>>

DDPGInit == DDPGConstructed(DDPG_tau)

DQNConstructed(mem) ==
    /\ agent = "DQN"
    /\ memory = mem
    /\ model \in InitialModels
    /\ epsilon = EPSILON_START
    /\ last_state = DQN_reset_episode_vars.last_state
    /\ last_action = DQN_reset_episode_vars.last_action
    /\ total_reward = DQN_reset_episode_vars.total_reward
    /\ count = DQN_reset_episode_vars.count
    /\ episode_num = 1
    /\ stats = <<>>
    /\ weights_file = None
    /\ noise_state = <<>> /\ actor_local = <<>> /\ actor_target = <<>>
    /\ critic_local = <<>> /\ critic_target = <<>> /\ tau = <<>>
    /\ added = <<>> /\ calls = <<>>

DQNInit == DQNConstructed(<<>>)

Init == DDPGInit \/ DQNInit

Next == DDPGStep \/ DQNStep

Spec == Init /\ [][Next]_vars

\* ------------------------------------------------------------ direct calls
\* soft_update(critic_local.model, critic_target.model), called on its own.
SoftUpdateCritic ==
    /\ agent = "DDPG"
    /\ Len(calls) < MaxSteps
    /\ critic_target' = soft_update(tau, critic_local, critic_target)
    /\ calls' = Append(calls, CallRecord("soft_update", "critic", 0, FALSE, <<>>, FALSE,
                                         0, <<>>, <<>>, <<>>, FALSE, None))
    /\ UNCHANGED <<agent, memory, last_state, last_action, total_reward, count,
                   episode_num, stats, noise_state, actor_local, actor_target,
                   critic_local, tau, added>>
    /\ UNCHANGED dqn_vars

\* soft_update(actor_local.model, actor_target.model), called on its own.
SoftUpdateActor ==
    /\ agent = "DDPG"
    /\ Len(calls) < MaxSteps
    /\ actor_target' = soft_update(tau, actor_local, actor_target)
    /\ calls' = Append(calls, CallRecord("soft_update", "actor", 0, FALSE, <<>>, FALSE,
                                         0, <<>>, <<>>, <<>>, FALSE, None))
    /\ UNCHANGED <<agent, memory, last_state, last_action, total_reward, count,
                   episode_num, stats, noise_state, actor_local, critic_local,
                   critic_target, tau, added>>
    /\ UNCHANGED dqn_vars

\* self.tau is a plain attribute: the values a caller assigns before stepping.
TauValues == {<<0, 1>>, DDPG_tau, <<1, 1>>}

SoftUpdateInit == \E t \in TauValues : DDPGConstructed(t)

SoftUpdateNext == DDPGStep \/ SoftUpdateCritic \/ SoftUpdateActor

SpecSoftUpdate == SoftUpdateInit /\ [][SoftUpdateNext]_vars

\* replay(BATCH_SIZE), called on its own; random.sample raises when the memory
\* holds fewer than batch_size transitions.
ReplayCall ==
    /\ agent = "DQN"
    /\ Len(calls) < MaxReplays
    /\ BATCH_SIZE <= Len(memory)
    /\ \E mini_batch \in RandomSample(memory, BATCH_SIZE) :
        LET r == replay(model, epsilon, mini_batch)
        IN  /\ model' = r.model
            /\ epsilon' = r.epsilon
            /\ calls' = Append(calls, CallRecord("replay", <<>>, 0, FALSE, 0, FALSE, 1,
                                                 mini_batch, r.fits, <<>>, FALSE, None))
    /\ UNCHANGED <<agent, memory, last_state, last_action, total_reward, count,
                   episode_num, stats, weights_file, added>>
    /\ UNCHANGED ddpg_vars

\* Memories a run of step() calls leaves behind: full, of one terminal or of
\* one non-terminal transition.
ReplayMemories ==
    {[i \in 1..MEMORY_SIZE |->
         Experience(<<0, 1, 2>>, 1, 2 * Unit, <<1, 0, 3>>, d)] : d \in BOOLEAN}

ReplayInit == \E mem \in ReplayMemories : DQNConstructed(mem)

SpecReplay == ReplayInit /\ [][ReplayCall]_vars

\* ------------------------------------------------------------ claims
Called == Len(calls) > 0
Stepped == Called /\ Last(calls).op = "step"
Capacity == IF agent = "DDPG" THEN buffer_size ELSE MEMORY_SIZE
BatchSize == IF agent = "DDPG" THEN batch_size ELSE BATCH_SIZE
Min(a, b) == IF a < b THEN a ELSE b
Range(s) == {s[i] : i \in 1..Len(s)}
\* The calls of the episode that call i belongs to, up to call i.
EpisodeStart(i) ==
    CHOOSE j \in 1..i :
        /\ j = 1 \/ calls[j - 1].done
        /\ \A k \in j..(i - 1) : ~calls[k].done
DoneCalls == {i \in 1..Len(calls) : calls[i].done}
\* Episodes completed by the end of call i.
Completed(i) == Cardinality({j \in 1..i : calls[j].done})

\* C1: the replay memory never holds more than its capacity, and it holds
\* exactly the most recently added experiences, in insertion order: an add on
\* a full memory evicts the oldest one and nothing else.
C1_BufferFifo ==
    /\ Len(memory) <= Capacity
    /\ Len(memory) = Min(Len(added), Capacity)
    /\ memory = SubSeq(added, Len(added) - Len(memory) + 1, Len(added))

\* C1 witness: more experiences were added than the memory holds, the first
\* one is gone, and the memory has been sampled.
C1_Witness ==
    /\ Len(added) = Capacity + 1
    /\ added[1] \notin Range(memory)
    /\ \A i \in 2..Len(added) : added[i] \in Range(memory)
    /\ Last(calls).learned = 1

\* C2: on return from step(), a done=true call leaves total_reward 0.0 and
\* last_state and last_action empty; a done=false call leaves last_state and
\* last_action holding the state and the action of that call.
C2_EpisodeBoundary ==
    Stepped =>
        IF Last(calls).done
        THEN total_reward = 0 /\ last_state = None /\ last_action = None
        ELSE last_state = Some(Last(calls).state)
             /\ last_action = Some(Last(calls).action)

\* C2 witness: a done=true step that ends an episode of two calls, so that
\* there was a reward total and a previous pair to clear.
C2_Witness ==
    /\ Len(calls) = 2
    /\ ~calls[1].done /\ calls[2].done
    /\ calls[1].reward + calls[2].reward # 0
    /\ total_reward = 0 /\ last_state = None

\* C3: a step() call appends exactly one transition (previous state, previous
\* action, this call's reward, this call's reduced state, this call's done)
\* when a previous pair exists, and nothing otherwise: the first call and the
\* call after a done=true call append nothing, every other call appends one.
C3_OneTransitionPerStep ==
    Stepped =>
        LET n == Len(calls)
            c == calls[n]
            has_prev == n >= 2 /\ ~calls[n - 1].done
        IN  /\ c.stored = has_prev
            /\ Len(added) = Cardinality({i \in 2..n : ~calls[i - 1].done})
            /\ has_prev =>
                   /\ Last(added) = [state |-> calls[n - 1].state,
                                     action |-> calls[n - 1].action,
                                     reward |-> c.reward,
                                     next_state |-> c.state,
                                     done |-> c.done]
                   /\ Last(memory) = Last(added)

\* C3 witness: a call that stores, a call after a done=true call that stores
\* nothing, and a call that stores again.
C3_Witness ==
    /\ Len(calls) = 4
    /\ calls[2].stored /\ calls[2].done
    /\ ~calls[3].stored
    /\ calls[4].stored
    /\ calls[3].state # calls[4].state

\* C4: a step() call performs exactly one learning update, on a sample of
\* batch-size transitions of the memory, when the memory after this call's
\* store holds more than batch-size transitions; otherwise it neither samples
\* nor learns, and it still returns a full action vector.
C4_LearnOnlyWhenEnough ==
    Stepped =>
        LET c == Last(calls)
        IN  /\ c.learned = (IF Len(memory) > BatchSize THEN 1 ELSE 0)
            /\ c.learned = 0 => c.batch = <<>> /\ c.fits = <<>>
            /\ c.learned = 1 =>
                   /\ Len(c.batch) = BatchSize
                   /\ Len(memory) >= BatchSize
                   /\ Range(c.batch) \subseteq Range(memory)
            /\ Len(c.ret) = Len(ActionSpaceZeros)

\* C4 witness: a call whose memory holds exactly batch-size transitions, which
\* did not learn, after which a call learned.
C4_Witness ==
    /\ Len(calls) >= 2
    /\ Last(calls).learned = 1
    /\ calls[Len(calls) - 1].learned = 0
    /\ calls[Len(calls) - 1].stored
    /\ Len(memory) = BatchSize + 1

\* C5: after a step() call with done=true the DDPG agent's noise state is mu
\* again.
C5_NoiseResetAtEpisodeEnd ==
    (agent = "DDPG" /\ Stepped /\ Last(calls).done) => noise_state = mu

\* tau * local + (1 - tau) * target, elementwise, on the fixed-point grid.
Blend(t, l, w) ==
    [i \in 1..Len(w) |-> Scale(l[i], t) + Scale(w[i], <<t[2] - t[1], t[2]>>)]

\* What one soft update makes of a target, given the local weights it reads.
SoftUpdated(l, w, w_new) ==
    /\ w_new = Blend(tau, l, w)
    /\ tau[1] = 0 => w_new = w
    /\ tau[1] = tau[2] => w_new = l

C6_Step ==
    LET c == Last(calls')
    IN  /\ (critic_target' # critic_target \/ actor_target' # actor_target)
               => (c.op = "soft_update" \/ (c.op = "step" /\ c.learned = 1))
        /\ (c.op = "soft_update" /\ c.state = "critic") =>
               /\ SoftUpdated(critic_local, critic_target, critic_target')
               /\ critic_local' = critic_local
               /\ actor_local' = actor_local /\ actor_target' = actor_target
        /\ (c.op = "soft_update" /\ c.state = "actor") =>
               /\ SoftUpdated(actor_local, actor_target, actor_target')
               /\ actor_local' = actor_local
               /\ critic_local' = critic_local /\ critic_target' = critic_target
        /\ (c.op = "step" /\ c.learned = 1) =>
               /\ SoftUpdated(critic_local', critic_target, critic_target')
               /\ SoftUpdated(actor_local', actor_target, actor_target')

\* C6: soft_update sets every target parameter to tau*local + (1-tau)*target
\* and leaves the local parameters alone; with tau = 0 the target is
\* unchanged, with tau = 1 it becomes the local; and the target parameters
\* change only in a soft update (called on its own, or at the end of the
\* learning update of a step).
C6_SoftUpdate == [][C6_Step]_vars

\* C6 witness: soft_update was called on its own, after a learning update, on
\* an actor whose local and target weights differ.
C6_Witness ==
    /\ Called
    /\ Last(calls).op = "soft_update" /\ Last(calls).state = "actor"
    /\ \E i \in 1..Len(calls) : calls[i].learned = 1
    /\ actor_local # actor_target
    /\ tau = DDPG_tau

\* C7: in replay, the scalar target of a sampled transition is its reward when
\* done=true and reward + GAMMA * max_a Q(next_state, a) when done=false; only
\* the taken action's entry of the target vector is overwritten with it, the
\* other entries stay the network's prediction for the state.
C7_ReplayTarget ==
    (agent = "DQN" /\ Called) =>
        \A i \in 1..Len(Last(calls).fits) :
            LET f == Last(calls).fits[i]
                e == f.e
                y == f.target_f[e.action]
            IN  /\ e.done => y = e.reward
                /\ ~e.done =>
                       \E a \in Actions :
                           /\ \A b \in Actions : f.next_q[b] <= f.next_q[a]
                           /\ y = e.reward + Scale(f.next_q[a], GAMMA)
                /\ \A a \in Actions \ {e.action} : f.target_f[a] = f.predicted[a]
                /\ DOMAIN f.target_f = Actions

\* C7 witness: one replay fitted a terminal transition whose next state has a
\* non-zero best Q-value, and a later one fitted a non-terminal transition.
C7_Witness ==
    /\ agent = "DQN"
    /\ Len(calls) = 4
    /\ Len(calls[3].fits) = 1 /\ Len(calls[4].fits) = 1
    /\ calls[3].fits[1].e.done
    /\ \A a \in Actions : calls[3].fits[1].next_q[a] # 0
    /\ ~calls[4].fits[1].e.done
    /\ calls[4].fits[1].target_f[calls[4].fits[1].e.action]
           # calls[4].fits[1].e.reward

\* C8: epsilon is decayed at most once per replay() call, never increases,
\* and never falls below EPSILON_MIN.
C8_EpsilonFloor ==
    agent = "DQN" => (epsilon <= EPSILON_START /\ epsilon >= EPSILON_MIN)

\* The stats row of the episode that ends with call i.
EpisodeRow(i) == stats[Completed(i)]

\* C9: every done=true step() writes exactly one stats row, before the reset;
\* the row's total_reward is the sum of the rewards of all calls of the
\* episode, first and last included, and its episode number is 1 for the
\* first row and one more than the previous row's; a done=false step writes
\* no row and leaves the episode counter, which is never reset, alone.
C9_StatsRows ==
    /\ Len(stats) = Cardinality(DoneCalls)
    /\ episode_num = 1 + Len(stats)
    /\ \A i \in DoneCalls :
           /\ EpisodeRow(i)[1] = Completed(i)
           /\ EpisodeRow(i)[2] =
                  SumSeq([k \in 1..(i - EpisodeStart(i) + 1) |->
                             calls[EpisodeStart(i) + k - 1].reward])
           /\ calls[i].wrote = Some(EpisodeRow(i))
    /\ \A i \in 1..Len(calls) : ~calls[i].done => calls[i].wrote = None

\* C9 witness: a second row, written by the last of three calls of an
\* episode, whose total is not 0 although total_reward is 0 again.
C9_Witness ==
    /\ Len(calls) = 4 /\ Len(stats) = 2
    /\ calls[1].done /\ calls[4].done
    /\ stats[2][1] = 2 /\ stats[2][2] # 0
    /\ stats[2][2] # calls[4].reward
    /\ total_reward = 0

\* C10: the DQN agent saves its weights in a done=true step exactly when the
\* number of episodes completed so far, the one just ended included, is a
\* positive multiple of the save period, and in no other step.
C10_SaveEveryPeriod ==
    agent = "DQN" =>
        \A i \in 1..Len(calls) :
            calls[i].saved <=>
                (calls[i].done /\ Completed(i) > 0 /\ Completed(i) % SAVE_PERIOD = 0)

====
